---- MODULE Spec2Model ----
(***************************************************************************)
(* Model of crates/containerd-shim-wasm/src/sandbox/shim/otel.rs:          *)
(* ConfigBuilder / Config, Config::init (pipeline installer), the trace    *)
(* context carrier codec (get_trace_context / set_trace_context) and       *)
(* ShutdownGuard.                                                          *)
(*                                                                         *)
(* Strings that the code formats or parses are sequences of atoms (one     *)
(* atom per lexical unit), so that formatting and parsing are computed.    *)
(***************************************************************************)
EXTENDS Integers, Sequences, FiniteSets, TLC

VARIABLES
    builder,        \* the ConfigBuilder value being staged
    calls,          \* history: last argument of each setter since builder()
    built,          \* result of the last ConfigBuilder::build
    tracerProvider, \* opentelemetry global tracer provider (0 = noop provider)
    pipelines,      \* every batch pipeline install_batch has created
    propagator,     \* global text map propagator (0 = noop, n = n-th W3C one)
    subscriber,     \* tracing global default (0 = none, p = layer over pipeline p)
    guard,          \* the ShutdownGuard returned by init
    literalDrops,   \* number of ShutdownGuard literals dropped
    spans,          \* tracing spans known to the registry
    current,        \* Span::current() (0 = none)
    carrier,        \* last text returned by get_trace_context
    panicked,       \* the process has panicked
    last            \* history: the last operation, its inputs and its result

vars == <<builder, calls, built, tracerProvider, pipelines, propagator,
          subscriber, guard, literalDrops, spans, current, carrier,
          panicked, last>>

builderVars == <<builder, calls, built>>
tracingVars == <<tracerProvider, pipelines, propagator, subscriber, guard,
                 literalDrops, spans, current, carrier, panicked, last>>

----------------------------------------------------------------------------
(* Bounds *)
MaxPipelines == 2
MaxSpans == 2
MaxLiteralDrops == 2

----------------------------------------------------------------------------
(* Constants of the program *)
OTEL_EXPORTER_OTLP_PROTOCOL_HTTP_PROTOBUF == "http/protobuf"
OTEL_EXPORTER_OTLP_PROTOCOL_GRPC == "grpc"
\* opentelemetry_otlp's default with the http-proto feature enabled
OTEL_EXPORTER_OTLP_PROTOCOL_DEFAULT == "http/protobuf"

\* Values the callers pass to the setters
Endpoints == {"", "http://collector:4318"}
Protocols == {"http/protobuf", "grpc", "bogus"}

\* Option<String>
None == [some |-> FALSE, val |-> ""]
Some(s) == [some |-> TRUE, val |-> s]

NoConfig == [otel_endpoint |-> "", otel_protocol |-> ""]

----------------------------------------------------------------------------
(* ConfigBuilder *)

\* #[derive(Default)]: both fields None
ConfigBuilderDefault == [otel_endpoint |-> None, otel_protocol |-> None]

\* variant: a second call does not replace the value already staged
otel_endpoint_keep_first(self, value) ==
    IF self.otel_endpoint.some THEN self
    ELSE [self EXCEPT !.otel_endpoint = Some(value)]

otel_endpoint(self, value) == [self EXCEPT !.otel_endpoint = Some(value)]

otel_protocol(self, value) == [self EXCEPT !.otel_protocol = Some(value)]

\* variant: a missing endpoint is replaced by the empty string
build_empty_endpoint(self) ==
    [ok |-> TRUE, err |-> "",
     config |-> [otel_endpoint |-> self.otel_endpoint.val,
                 otel_protocol |->
                     IF self.otel_protocol.some
                     THEN self.otel_protocol.val
                     ELSE OTEL_EXPORTER_OTLP_PROTOCOL_DEFAULT]]

\* variant: a missing protocol is left empty instead of defaulted
build_no_default(self) ==
    IF ~self.otel_endpoint.some
    THEN [ok |-> FALSE, err |-> "MissingEndpoint", config |-> NoConfig]
    ELSE [ok |-> TRUE, err |-> "",
          config |-> [otel_endpoint |-> self.otel_endpoint.val,
                      otel_protocol |-> self.otel_protocol.val]]

build(self) ==
    IF ~self.otel_endpoint.some
    THEN [ok |-> FALSE, err |-> "MissingEndpoint", config |-> NoConfig]
    ELSE [ok |-> TRUE, err |-> "",
          config |-> [otel_endpoint |-> self.otel_endpoint.val,
                      otel_protocol |->
                          IF self.otel_protocol.some
                          THEN self.otel_protocol.val
                          ELSE OTEL_EXPORTER_OTLP_PROTOCOL_DEFAULT]]

NoCalls == [otel_endpoint |-> None, otel_protocol |-> None]
NoBuild == [done |-> FALSE, ok |-> FALSE, err |-> "", config |-> NoConfig,
            calls |-> NoCalls]

\* Config::builder()
Builder ==
    /\ builder' = [live |-> TRUE, b |-> ConfigBuilderDefault]
    /\ calls' = NoCalls
    /\ UNCHANGED built
    /\ UNCHANGED tracingVars

\* builder.otel_endpoint(value)
OtelEndpoint ==
    /\ builder.live
    /\ \E value \in Endpoints :
         /\ builder' = [builder EXCEPT !.b = otel_endpoint(builder.b, value)]
         /\ calls' = [calls EXCEPT !.otel_endpoint = Some(value)]
    /\ UNCHANGED built
    /\ UNCHANGED tracingVars

\* builder.otel_protocol(value)
OtelProtocol ==
    /\ builder.live
    /\ \E value \in Protocols :
         /\ builder' = [builder EXCEPT !.b = otel_protocol(builder.b, value)]
         /\ calls' = [calls EXCEPT !.otel_protocol = Some(value)]
    /\ UNCHANGED built
    /\ UNCHANGED tracingVars

\* builder.build(): consumes the builder
Build ==
    /\ builder.live
    /\ LET r == build(builder.b) IN
         built' = [done |-> TRUE, ok |-> r.ok, err |-> r.err, config |-> r.config,
                   calls |-> calls]
    /\ builder' = [builder EXCEPT !.live = FALSE]
    /\ UNCHANGED calls
    /\ UNCHANGED tracingVars

\* Every builder value a chain of setter calls can produce
AllBuilders ==
    {[otel_endpoint |-> e, otel_protocol |-> p] :
        e \in {None} \cup {Some(s) : s \in Endpoints},
        p \in {None} \cup {Some(s) : s \in Protocols}}

\* Every Config that build() can return
BuildableConfigs == {build(b).config : b \in {x \in AllBuilders : build(x).ok}}

----------------------------------------------------------------------------
(* Span contexts and the W3C trace-context text format *)

\* opentelemetry Context carrying (or not) a span context
EmptyCtx == [valid |-> FALSE, trace_id |-> 0, span_id |-> 0, flags |-> 0,
             remote |-> FALSE]

\* Lowercase hex rendering of trace and span ids (one atom per id)
HexIds == <<"0", "1", "2", "3", "4", "5", "6", "7", "8", "9", "a", "b", "c">>
ToHex(n) == HexIds[n + 1]
IsHex(a) == \E i \in 1..Len(HexIds) : HexIds[i] = a
FromHex(a) == (CHOOSE i \in 1..Len(HexIds) : HexIds[i] = a) - 1

\* Two-digit hex rendering of version and flags
HexBytes == <<"00", "01", "02", "03">>
ToHexByte(n) == HexBytes[n + 1]
IsHexByte(a) == \E i \in 1..Len(HexBytes) : HexBytes[i] = a
FromHexByte(a) == (CHOOSE i \in 1..Len(HexBytes) : HexBytes[i] = a) - 1

TRACEPARENT == <<"traceparent">>
TRACESTATE == <<"tracestate">>
EmptyMap == [k \in {} |-> <<>>]

\* SpanContext::is_valid
IsValidIds(trace_id, span_id) == trace_id # 0 /\ span_id # 0

\* variant: trace id and span id written in each other's place
W3CInject_swapped(cx, injector) ==
    IF cx.valid /\ IsValidIds(cx.trace_id, cx.span_id)
    THEN (TRACEPARENT :> <<ToHexByte(0), "-", ToHex(cx.span_id), "-",
                           ToHex(cx.trace_id), "-", ToHexByte(cx.flags)>>)
         @@ (TRACESTATE :> <<>>) @@ injector
    ELSE injector

\* TraceContextPropagator::inject_context into a HashMap
W3CInject(cx, injector) ==
    IF cx.valid /\ IsValidIds(cx.trace_id, cx.span_id)
    THEN (TRACEPARENT :> <<ToHexByte(0), "-", ToHex(cx.trace_id), "-",
                           ToHex(cx.span_id), "-", ToHexByte(cx.flags)>>)
         @@ (TRACESTATE :> <<>>) @@ injector
    ELSE injector

\* str::split_terminator('-')
RECURSIVE SplitDash(_, _, _)
SplitDash(s, i, cur) ==
    IF i > Len(s) THEN (IF cur = <<>> THEN <<>> ELSE <<cur>>)
    ELSE IF s[i] = "-" THEN <<cur>> \o SplitDash(s, i + 1, <<>>)
    ELSE SplitDash(s, i + 1, Append(cur, s[i]))

\* TraceContextPropagator::extract_span_context
W3CExtractSpanContext(extractor) ==
    LET header == IF TRACEPARENT \in DOMAIN extractor
                  THEN extractor[TRACEPARENT] ELSE <<>>
        parts == SplitDash(header, 1, <<>>)
    IN IF Len(parts) < 4 THEN EmptyCtx
       ELSE IF \E i \in 1..4 : Len(parts[i]) # 1 THEN EmptyCtx
       ELSE IF ~IsHexByte(parts[1][1]) \/ ~IsHex(parts[2][1])
               \/ ~IsHex(parts[3][1]) \/ ~IsHexByte(parts[4][1]) THEN EmptyCtx
       ELSE LET version == FromHexByte(parts[1][1])
                trace_id == FromHex(parts[2][1])
                span_id == FromHex(parts[3][1])
                opts == FromHexByte(parts[4][1])
            IN IF version = 0 /\ Len(parts) # 4 THEN EmptyCtx
               ELSE IF version = 0 /\ opts > 2 THEN EmptyCtx
               ELSE IF ~IsValidIds(trace_id, span_id) THEN EmptyCtx
               ELSE [valid |-> TRUE, trace_id |-> trace_id, span_id |-> span_id,
                     flags |-> opts % 2, remote |-> TRUE]

\* global::get_text_map_propagator(|p| p.inject_context(cx, injector))
Inject(prop, cx, injector) == IF prop = 0 THEN injector ELSE W3CInject(cx, injector)

\* global::get_text_map_propagator(|p| p.extract(extractor)); the ambient
\* opentelemetry Context is empty
Extract(prop, extractor) ==
    IF prop = 0 THEN EmptyCtx ELSE W3CExtractSpanContext(extractor)

----------------------------------------------------------------------------
(* serde_json encoding of HashMap<String, String> *)

QUOTE == "\""

JsonString(s) == <<QUOTE>> \o s \o <<QUOTE>>

\* serde_json::to_string(&HashMap): members in the map's iteration order
RECURSIVE JsonMembers(_, _, _)
JsonMembers(m, order, i) ==
    IF i > Len(order) THEN <<>>
    ELSE (IF i > 1 THEN <<",">> ELSE <<>>)
         \o JsonString(order[i]) \o <<":">> \o JsonString(m[order[i]])
         \o JsonMembers(m, order, i + 1)

to_string(m, order) == <<"{">> \o JsonMembers(m, order, 1) \o <<"}">>

\* The iteration orders a HashMap with these keys can have
Orders(m) ==
    {o \in [1..Cardinality(DOMAIN m) -> DOMAIN m] :
        \A i, j \in 1..Cardinality(DOMAIN m) : i # j => o[i] # o[j]}

ParseFail == [ok |-> FALSE, val |-> <<>>, next |-> 0]

\* a JSON string starting at t[i]
RECURSIVE ParseStringBody(_, _, _)
ParseStringBody(t, i, acc) ==
    IF i > Len(t) THEN ParseFail
    ELSE IF t[i] = QUOTE THEN [ok |-> TRUE, val |-> acc, next |-> i + 1]
    ELSE ParseStringBody(t, i + 1, Append(acc, t[i]))

ParseString(t, i) ==
    IF i > Len(t) \/ t[i] # QUOTE THEN ParseFail
    ELSE ParseStringBody(t, i + 1, <<>>)

MapFail == [ok |-> FALSE, map |-> EmptyMap, next |-> 0]

\* the members of a JSON object whose keys and values are strings
RECURSIVE ParseMembers(_, _, _)
ParseMembers(t, i, acc) ==
    LET k == ParseString(t, i) IN
    IF ~k.ok THEN MapFail
    ELSE IF k.next > Len(t) \/ t[k.next] # ":" THEN MapFail
    ELSE LET v == ParseString(t, k.next + 1) IN
         IF ~v.ok THEN MapFail
         ELSE LET acc2 == (k.val :> v.val) @@ acc IN
              IF v.next > Len(t) THEN MapFail
              ELSE IF t[v.next] = "}" THEN [ok |-> TRUE, map |-> acc2, next |-> v.next + 1]
              ELSE IF t[v.next] = "," THEN ParseMembers(t, v.next + 1, acc2)
              ELSE MapFail

\* serde_json::from_str::<HashMap<String, String>>
from_str(t) ==
    IF Len(t) < 2 \/ t[1] # "{" THEN MapFail
    ELSE LET r == IF t[2] = "}" THEN [ok |-> TRUE, map |-> EmptyMap, next |-> 3]
                  ELSE ParseMembers(t, 2, EmptyMap)
         IN IF r.ok /\ r.next = Len(t) + 1 THEN r ELSE MapFail

----------------------------------------------------------------------------
(* Batch pipelines and the global tracer provider *)

\* BatchSpanProcessor flush: hand the buffered spans to the exporter; an
\* exporter that is already shut down drops them
Flush(pl) ==
    IF pl.shutdown
    THEN [pl EXCEPT !.lost = @ \cup pl.buffer, !.buffer = {}]
    ELSE [pl EXCEPT !.exported = @ \cup pl.buffer, !.buffer = {}]

ExporterShutdown(pl) == [pl EXCEPT !.shutdown = TRUE]

\* variant: the exporter is shut down without a flush
ProcessorShutdown_noflush(pl) == ExporterShutdown(pl)

\* Dropping the last handle of a provider shuts its span processor down:
\* flush what is buffered, then shut the exporter down
ProcessorShutdown(pl) == ExporterShutdown(Flush(pl))

\* global::set_tracer_provider(new): the provider it replaces is dropped
set_tracer_provider(tp, pls, new) ==
    [tracerProvider |-> new,
     pipelines |-> IF tp # 0 /\ tp # new
                   THEN [pls EXCEPT ![tp] = ProcessorShutdown(pls[tp])]
                   ELSE pls,
     panicked |-> FALSE]

\* variant: shutting down when no provider is installed panics
shutdown_tracer_provider_strict(tp, pls) ==
    [set_tracer_provider(tp, pls, 0) EXCEPT !.panicked = (tp = 0)]

\* global::shutdown_tracer_provider(): install the noop provider
shutdown_tracer_provider(tp, pls) == set_tracer_provider(tp, pls, 0)

\* The layer's Tracer holds a weak handle on its provider
ProviderAlive(p) == p # 0 /\ ~pipelines[p].shutdown

----------------------------------------------------------------------------
(* Config::init *)

NoExporter == [transport |-> "", endpoint |-> ""]

\* variant: the grpc arm builds the HTTP exporter
SelectExporter_http_only(cfg) ==
    IF cfg.otel_protocol = OTEL_EXPORTER_OTLP_PROTOCOL_HTTP_PROTOBUF
       \/ cfg.otel_protocol = OTEL_EXPORTER_OTLP_PROTOCOL_GRPC
    THEN [ok |-> TRUE, exporter |-> [transport |-> "http", endpoint |-> cfg.otel_endpoint]]
    ELSE [ok |-> FALSE, exporter |-> [transport |-> "", endpoint |-> ""]]

\* the match of init_tracer over otel_protocol
SelectExporter(cfg) ==
    IF cfg.otel_protocol = OTEL_EXPORTER_OTLP_PROTOCOL_HTTP_PROTOBUF
    THEN [ok |-> TRUE, exporter |-> [transport |-> "http", endpoint |-> cfg.otel_endpoint]]
    ELSE IF cfg.otel_protocol = OTEL_EXPORTER_OTLP_PROTOCOL_GRPC
    THEN [ok |-> TRUE, exporter |-> [transport |-> "grpc", endpoint |-> cfg.otel_endpoint]]
    ELSE [ok |-> FALSE, exporter |-> NoExporter]

\* install_batch builds the exporter; a well-formed endpoint builds, another
\* one may be rejected by the transport
PipelineOutcomes(exporter) ==
    IF exporter.endpoint = "" THEN {TRUE, FALSE} ELSE {TRUE}

\* the batch span processor and exporter of a new provider
NewPipeline ==
    [buffer |-> {}, exported |-> {}, lost |-> {}, shutdown |-> FALSE]

\* variant: a second subscriber replaces the first
set_global_default_overwrite(sub, new) == [ok |-> TRUE, subscriber |-> new]

\* tracing::subscriber::set_global_default: settable once per process
set_global_default(sub, new) ==
    IF sub # 0 THEN [ok |-> FALSE, subscriber |-> sub]
    ELSE [ok |-> TRUE, subscriber |-> new]

\* snapshot of the process-wide state an operation starts from
Globals == [tracerProvider |-> tracerProvider, propagator |-> propagator,
            subscriber |-> subscriber, guard |-> guard,
            npipelines |-> Len(pipelines),
            buffered |-> IF tracerProvider # 0
                         THEN pipelines[tracerProvider].buffer ELSE {}]

NoLast == [op |-> "", err |-> "", cfg |-> NoConfig, exporter |-> NoExporter,
           pre |-> [tracerProvider |-> 0, propagator |-> 0, subscriber |-> 0,
                    guard |-> "none", npipelines |-> 0, buffered |-> {}],
           text |-> <<>>, preParent |-> EmptyCtx,
           roundtrip |-> FALSE]

Stale == [carrier EXCEPT !.age = "stale"]

\* Config::init(&self)
ConfigInit ==
    /\ ~panicked
    /\ Len(pipelines) < MaxPipelines
    /\ \E cfg \in BuildableConfigs :
        LET sel == SelectExporter(cfg)
            rec == [NoLast EXCEPT !.op = "init", !.cfg = cfg, !.pre = Globals,
                                  !.exporter = sel.exporter]
        IN IF ~sel.ok
           THEN /\ last' = [rec EXCEPT !.err = "UnsupportedProtocol"]
                /\ UNCHANGED <<tracerProvider, pipelines, propagator,
                               subscriber, guard, panicked>>
           ELSE \E okp \in PipelineOutcomes(sel.exporter) :
                IF ~okp
                THEN /\ last' = [rec EXCEPT !.err = "PipelineConstructionFailed"]
                     /\ UNCHANGED <<tracerProvider, pipelines, propagator,
                                    subscriber, guard, panicked>>
                ELSE LET id == Len(pipelines) + 1
                         g == set_tracer_provider(tracerProvider,
                                 Append(pipelines, NewPipeline), id)
                         sgd == set_global_default(subscriber, id)
                     IN /\ tracerProvider' = g.tracerProvider
                        /\ pipelines' = g.pipelines
                        /\ propagator' = id
                        /\ subscriber' = sgd.subscriber
                        /\ guard' = IF sgd.ok THEN "held" ELSE guard
                        /\ last' = [rec EXCEPT !.err =
                                      IF sgd.ok THEN "" ELSE "AlreadyInitialized"]
                        /\ UNCHANGED panicked
    /\ carrier' = Stale
    /\ UNCHANGED <<literalDrops, spans, current>>
    /\ UNCHANGED builderVars

----------------------------------------------------------------------------
(* ShutdownGuard *)

\* impl Drop for ShutdownGuard, run on the guard init returned
DropGuard ==
    /\ ~panicked
    /\ guard = "held"
    /\ LET g == shutdown_tracer_provider(tracerProvider, pipelines) IN
         /\ tracerProvider' = g.tracerProvider
         /\ pipelines' = g.pipelines
         /\ panicked' = g.panicked
    /\ guard' = "dropped"
    /\ last' = [NoLast EXCEPT !.op = "drop", !.pre = Globals]
    /\ carrier' = Stale
    /\ UNCHANGED <<propagator, subscriber, literalDrops, spans, current>>
    /\ UNCHANGED builderVars

\* impl Drop for ShutdownGuard, run on a ShutdownGuard unit value written by
\* the caller (the struct is public and has no fields)
DropLiteral ==
    /\ ~panicked
    /\ literalDrops < MaxLiteralDrops
    /\ LET g == shutdown_tracer_provider(tracerProvider, pipelines) IN
         /\ tracerProvider' = g.tracerProvider
         /\ pipelines' = g.pipelines
         /\ panicked' = g.panicked
    /\ literalDrops' = literalDrops + 1
    /\ last' = [NoLast EXCEPT !.op = "drop", !.pre = Globals]
    /\ carrier' = Stale
    /\ UNCHANGED <<propagator, subscriber, guard, spans, current>>
    /\ UNCHANGED builderVars

----------------------------------------------------------------------------
(* tracing spans seen through the tracing-opentelemetry layer *)

\* the trace id a span carries: its parent's when it has one, else its own;
\* a span that was created under a parent and has lost it has none of its
\* own, and the id generator is asked for one (gen) at every read
CurrentTraceId(sp, gen) ==
    IF sp.parent_cx.valid THEN sp.parent_cx.trace_id
    ELSE IF sp.trace_id # 0 THEN sp.trace_id
    ELSE gen

\* parent-based sampling over an always-on root sampler
SampledFlags(sp) == IF sp.parent_cx.valid THEN sp.parent_cx.flags ELSE 1

\* Span::context() of span i: the layer's tracer builds the span context,
\* and yields an empty Context once its provider is gone
SpanContextOf(i, gen) ==
    IF i = 0 \/ subscriber = 0 \/ ~ProviderAlive(subscriber) THEN EmptyCtx
    ELSE LET sp == spans[i] IN
         [valid |-> IsValidIds(CurrentTraceId(sp, gen), sp.span_id),
          trace_id |-> CurrentTraceId(sp, gen), span_id |-> sp.span_id,
          flags |-> SampledFlags(sp), remote |-> FALSE]

\* ids are drawn fresh for every span
FreshTraceId(n) == 2 * n - 1
FreshSpanId(n) == 2 * n

\* the id the generator returns when asked outside span creation: fresh,
\* hence none of the ids the spans were created with
GeneratedIds == {FreshTraceId(MaxSpans + 1)}

\* a span is created and entered; without a subscriber spans are disabled
NewSpan ==
    /\ ~panicked
    /\ subscriber # 0
    /\ Len(spans) < MaxSpans
    /\ \E root \in BOOLEAN, gen \in GeneratedIds :
        LET n == Len(spans) + 1
            alive == ProviderAlive(subscriber)
            parent == IF root THEN EmptyCtx ELSE SpanContextOf(current, gen)
        IN spans' = Append(spans,
              [parent_cx |-> parent,
               trace_id |-> IF parent.valid \/ ~alive THEN 0 ELSE FreshTraceId(n),
               span_id |-> IF alive THEN FreshSpanId(n) ELSE 0,
               prev |-> current, closed |-> FALSE])
    /\ current' = Len(spans) + 1
    /\ carrier' = IF carrier.age = "captured"
                  THEN [carrier EXCEPT !.age = "newspan"] ELSE Stale
    /\ last' = [NoLast EXCEPT !.op = "new_span"]
    /\ UNCHANGED <<tracerProvider, pipelines, propagator, subscriber, guard,
                   literalDrops, panicked>>
    /\ UNCHANGED builderVars

\* the current span is exited and closed; the layer ends it on its tracer,
\* which queues it on the batch processor when it is sampled
CloseSpan ==
    /\ ~panicked
    /\ current # 0
    /\ LET sp == spans[current] IN
         /\ spans' = [spans EXCEPT ![current].closed = TRUE]
         /\ current' = IF sp.prev # 0 /\ ~spans[sp.prev].closed THEN sp.prev ELSE 0
         /\ pipelines' =
              IF ProviderAlive(subscriber) /\ SampledFlags(sp) = 1
              THEN [pipelines EXCEPT ![subscriber].buffer = @ \cup {current}]
              ELSE pipelines
    /\ carrier' = Stale
    /\ last' = [NoLast EXCEPT !.op = "close_span"]
    /\ UNCHANGED <<tracerProvider, propagator, subscriber, guard,
                   literalDrops, panicked>>
    /\ UNCHANGED builderVars

\* the background task of a batch processor exports what is buffered
ExportBatch ==
    /\ ~panicked
    /\ \E p \in 1..Len(pipelines) :
         /\ ~pipelines[p].shutdown
         /\ pipelines[p].buffer # {}
         /\ pipelines' = [pipelines EXCEPT ![p] = Flush(pipelines[p])]
    /\ UNCHANGED <<tracerProvider, propagator, subscriber, guard, literalDrops,
                   spans, current, carrier, panicked, last>>
    /\ UNCHANGED builderVars

----------------------------------------------------------------------------
(* Carrier codec *)

\* Config::get_trace_context(): the carrier built before serialisation
get_trace_context_carrier(prop, cx) == Inject(prop, cx, EmptyMap)

\* variant: an undecodable text is treated as an empty carrier
set_trace_context_lenient(text, prop, sps, cur) ==
    LET extractor == from_str(text)
        context == Extract(prop, extractor.map)
    IN [err |-> "",
        spans |-> IF cur = 0 THEN sps
                  ELSE [sps EXCEPT ![cur].parent_cx = context]]

\* Config::set_trace_context(trace_context) on the current span
set_trace_context(text, prop, sps, cur) ==
    LET extractor == from_str(text) IN
    IF ~extractor.ok THEN [err |-> "ContextMalformed", spans |-> sps]
    ELSE LET context == Extract(prop, extractor.map) IN
         [err |-> "",
          spans |-> IF cur = 0 THEN sps
                    ELSE [sps EXCEPT ![cur].parent_cx = context]]

\* texts a peer may hand to set_trace_context
NotJson == <<"not", " ", "json">>
EmptyObject == <<"{", "}">>
NumberValue == <<"{", QUOTE, "traceparent", QUOTE, ":", "1", "}">>
Truncated == <<"{", QUOTE, "traceparent", QUOTE, ":", QUOTE, "00">>
ForeignParent ==
    <<"{", QUOTE, "traceparent", QUOTE, ":",
      QUOTE, "00", "-", "b", "-", "c", "-", "00", QUOTE, "}">>
FixedTexts == {NotJson, EmptyObject, NumberValue, Truncated, ForeignParent}

GetTraceContext ==
    /\ ~panicked
    /\ \E gen \in GeneratedIds :
        LET cx == SpanContextOf(current, gen)
            injector == get_trace_context_carrier(propagator, cx)
        IN \E order \in Orders(injector) :
             carrier' = [text |-> to_string(injector, order), origin |-> cx,
                         span |-> current, age |-> "captured"]
    /\ last' = [NoLast EXCEPT !.op = "get_trace_context"]
    /\ UNCHANGED <<tracerProvider, pipelines, propagator, subscriber, guard,
                   literalDrops, spans, current, panicked>>
    /\ UNCHANGED builderVars

SetTraceContext ==
    /\ ~panicked
    /\ \E text \in FixedTexts \cup {carrier.text} :
        LET r == set_trace_context(text, propagator, spans, current) IN
        /\ spans' = r.spans
        /\ last' = [NoLast EXCEPT
                      !.op = "set_trace_context", !.err = r.err, !.text = text,
                      !.preParent = IF current = 0 THEN EmptyCtx
                                    ELSE spans[current].parent_cx,
                      !.roundtrip = (carrier.age = "newspan" /\ text = carrier.text)]
    /\ carrier' = Stale
    /\ UNCHANGED <<tracerProvider, pipelines, propagator, subscriber, guard,
                   literalDrops, current, panicked>>
    /\ UNCHANGED builderVars

----------------------------------------------------------------------------
(* Specifications *)

Init ==
    /\ builder = [live |-> FALSE, b |-> ConfigBuilderDefault]
    /\ calls = NoCalls
    /\ built = NoBuild
    /\ tracerProvider = 0
    /\ pipelines = <<>>
    /\ propagator = 0
    /\ subscriber = 0
    /\ guard = "none"
    /\ literalDrops = 0
    /\ spans = <<>>
    /\ current = 0
    /\ carrier = [text |-> <<>>, origin |-> EmptyCtx, span |-> 0, age |-> "stale"]
    /\ panicked = FALSE
    /\ last = NoLast

\* installing and releasing the tracing state, and the spans it exports
Next ==
    \/ ConfigInit
    \/ DropGuard
    \/ DropLiteral
    \/ NewSpan
    \/ CloseSpan
    \/ ExportBatch

Spec == Init /\ [][Next]_vars

\* the guard is dropped when its scope ends
LiveSpec == Init /\ [][Next]_vars /\ WF_vars(DropGuard)

\* carrying the trace context of spans across a boundary
CodecNext ==
    \/ ConfigInit
    \/ NewSpan
    \/ GetTraceContext
    \/ SetTraceContext

CodecSpec == Init /\ [][CodecNext]_vars

\* the builder side of the module
BuilderNext ==
    \/ Builder
    \/ OtelEndpoint
    \/ OtelProtocol
    \/ Build

BuilderSpec == Init /\ [][BuilderNext]_vars

----------------------------------------------------------------------------
(* Properties *)

Recognized == {OTEL_EXPORTER_OTLP_PROTOCOL_HTTP_PROTOBUF,
               OTEL_EXPORTER_OTLP_PROTOCOL_GRPC}

FurtherInit == last.op = "init" /\ last.pre.guard = "held"

\* C1 as stated: once an init has succeeded and its guard is still held,
\* every further init, whatever its Config, fails with AlreadyInitialized
\* and returns no guard.
C1_AlwaysAlreadyInitialized ==
    FurtherInit => last.err = "AlreadyInitialized"

\* C1 amended: once an init has succeeded and its guard is still held, every
\* further init fails and returns no guard; the failure is AlreadyInitialized
\* when the Config's protocol is recognized and its pipeline was constructed,
\* UnsupportedProtocol when the protocol is not recognized, and
\* PipelineConstructionFailed otherwise.
C1_FurtherInitFails ==
    FurtherInit =>
        /\ last.err # ""
        /\ guard = "held"
        /\ subscriber = last.pre.subscriber
        /\ last.err = (IF last.cfg.otel_protocol \notin Recognized
                       THEN "UnsupportedProtocol"
                       ELSE IF Len(pipelines) = last.pre.npipelines
                       THEN "PipelineConstructionFailed"
                       ELSE "AlreadyInitialized")

C1_Witness == FurtherInit /\ last.err = "AlreadyInitialized"

\* C2: a failed init leaves the global tracer provider, the global
\* propagator and the global subscriber as they were before the call.
C2_FailedInitLeavesGlobals ==
    (last.op = "init" /\ last.err # "") =>
        /\ tracerProvider = last.pre.tracerProvider
        /\ propagator = last.pre.propagator
        /\ subscriber = last.pre.subscriber

\* C3: init builds the HTTP exporter for "http/protobuf" and the gRPC
\* exporter for "grpc", both pointed at the Config's endpoint, and for any
\* other protocol fails with UnsupportedProtocol having constructed nothing.
C3_ProtocolDispatch ==
    last.op = "init" =>
        /\ last.cfg.otel_protocol = "http/protobuf" =>
             /\ last.exporter = [transport |-> "http",
                                 endpoint |-> last.cfg.otel_endpoint]
             /\ last.err # "UnsupportedProtocol"
        /\ last.cfg.otel_protocol = "grpc" =>
             /\ last.exporter = [transport |-> "grpc",
                                 endpoint |-> last.cfg.otel_endpoint]
             /\ last.err # "UnsupportedProtocol"
        /\ last.cfg.otel_protocol \notin {"http/protobuf", "grpc"} =>
             /\ last.err = "UnsupportedProtocol"
             /\ last.exporter = NoExporter
             /\ Len(pipelines) = last.pre.npipelines
             /\ tracerProvider = last.pre.tracerProvider

C3_Witness ==
    /\ last.op = "init"
    /\ last.cfg.otel_protocol = "grpc"
    /\ last.err = ""
    /\ last.exporter.transport = "grpc"

\* C4: build fails with MissingEndpoint, and yields no Config, whenever
\* otel_endpoint was never called on the builder, whatever otel_protocol
\* calls were made.
C4_MissingEndpoint ==
    (built.done /\ ~built.calls.otel_endpoint.some) =>
        /\ ~built.ok
        /\ built.err = "MissingEndpoint"
        /\ built.config = NoConfig

C4_Witness ==
    /\ built.done
    /\ ~built.calls.otel_endpoint.some
    /\ built.calls.otel_protocol.some
    /\ built.err = "MissingEndpoint"

\* C5 as stated: a Config that build returns has a non-empty endpoint.
C5_EndpointNonEmpty ==
    (built.done /\ built.ok) => built.config.otel_endpoint # ""

\* C5 amended: a Config that build returns has as endpoint the value of the
\* last otel_endpoint call, unvalidated: it is non-empty exactly when that
\* value is non-empty.
C5_EndpointIsLastSet ==
    (built.done /\ built.ok) =>
        /\ built.calls.otel_endpoint.some
        /\ built.config.otel_endpoint = built.calls.otel_endpoint.val

C5_Witness ==
    /\ built.done
    /\ built.ok
    /\ built.config.otel_endpoint = "http://collector:4318"

\* C6 as stated: a Config that build returns has one of the two recognized
\* protocols.
C6_ProtocolRecognized ==
    (built.done /\ built.ok) => built.config.otel_protocol \in {"http/protobuf", "grpc"}

\* C6 amended: a Config that build returns has as protocol the value of the
\* last otel_protocol call, unvalidated, or "http/protobuf" when there was
\* no such call: it is recognized when it was defaulted or set to a
\* recognized value.
C6_ProtocolIsLastSetOrDefault ==
    (built.done /\ built.ok) =>
        built.config.otel_protocol =
            (IF built.calls.otel_protocol.some
             THEN built.calls.otel_protocol.val ELSE "http/protobuf")

C6_Witness ==
    /\ built.done
    /\ built.ok
    /\ ~built.calls.otel_protocol.some
    /\ built.config.otel_protocol = "http/protobuf"

RoundTrip == last.op = "set_trace_context" /\ last.roundtrip /\ carrier.span # 0

\* C7: the text captured from the current span, restored at once on a newly
\* created span, is accepted and gives the new span the trace id of the
\* captured span context.
C7_RoundTrip ==
    RoundTrip =>
        /\ last.err = ""
        /\ \A gen \in GeneratedIds :
             SpanContextOf(current, gen).trace_id = carrier.origin.trace_id

C7_Witness ==
    /\ RoundTrip
    /\ carrier.origin.valid
    /\ ~last.preParent.valid
    /\ spans[current].trace_id \notin {0, carrier.origin.trace_id}
    /\ \A gen \in GeneratedIds :
         SpanContextOf(current, gen).trace_id = carrier.origin.trace_id

\* a text with every JSON string replaced by the atom "S"
RECURSIVE Outline(_, _, _)
Outline(t, i, inString) ==
    IF i > Len(t) THEN (IF inString THEN <<"unterminated">> ELSE <<>>)
    ELSE IF t[i] = QUOTE
         THEN (IF inString THEN <<"S">> ELSE <<>>) \o Outline(t, i + 1, ~inString)
    ELSE IF inString THEN Outline(t, i + 1, TRUE)
    ELSE <<t[i]>> \o Outline(t, i + 1, FALSE)

\* the grammar of a JSON object whose member values are all strings
IsStringMapEncoding(t) ==
    LET o == Outline(t, 1, FALSE) IN
    /\ Len(o) >= 2
    /\ o[1] = "{"
    /\ o[Len(o)] = "}"
    /\ \/ Len(o) = 2
       \/ /\ Len(o) % 4 = 1
          /\ \A i \in 2..(Len(o) - 1) :
               o[i] = (CASE i % 4 = 2 -> "S"
                         [] i % 4 = 3 -> ":"
                         [] i % 4 = 0 -> "S"
                         [] OTHER -> ",")

\* C8: set_trace_context on a text that does not encode a string-to-string
\* mapping fails with ContextMalformed and leaves the parent of the current
\* span as it was.
C8_MalformedRejected ==
    (last.op = "set_trace_context" /\ ~IsStringMapEncoding(last.text)) =>
        /\ last.err = "ContextMalformed"
        /\ current # 0 => spans[current].parent_cx = last.preParent

C8_Witness ==
    /\ last.op = "set_trace_context"
    /\ last.text = NotJson
    /\ last.err = "ContextMalformed"
    /\ current # 0
    /\ spans[current].parent_cx.valid

DropStep ==
    \/ guard = "held" /\ guard' = "dropped"
    \/ literalDrops' = literalDrops + 1

\* C9: a release never panics; the first one shuts the global tracer
\* provider down after flushing it, and a release that finds the provider
\* already shut down changes nothing of the process-wide state.
C9_ReleaseRepeatable ==
    [][DropStep =>
        /\ ~panicked'
        /\ tracerProvider' = 0
        /\ tracerProvider # 0 =>
             /\ pipelines'[tracerProvider].shutdown
             /\ pipelines'[tracerProvider].exported =
                  pipelines[tracerProvider].exported \cup pipelines[tracerProvider].buffer
        /\ tracerProvider = 0 =>
             UNCHANGED <<tracerProvider, pipelines, propagator, subscriber>>]_vars

C9_Witness ==
    /\ last.op = "drop"
    /\ last.pre.tracerProvider = 0
    /\ last.pre.npipelines > 0
    /\ guard = "dropped"
    /\ literalDrops >= 1
    /\ ~panicked

AllFlushed ==
    \A p \in 1..Len(pipelines) :
        pipelines[p].shutdown =>
            pipelines[p].buffer = {} /\ pipelines[p].lost = {}

\* C10: a guard that init returned is released when its scope ends, and a
\* release exports every span still buffered before the exporter is shut
\* down: no pipeline is ever shut down with spans left in its buffer or lost.
C10_FlushedOnRelease ==
    /\ []AllFlushed
    /\ (guard = "held") ~>
         (guard = "dropped" /\ tracerProvider = 0 /\ AllFlushed
          /\ \A p \in 1..Len(pipelines) : pipelines[p].shutdown)

C10_Witness ==
    /\ last.op = "drop"
    /\ last.pre.guard = "held"
    /\ guard = "dropped"
    /\ last.pre.buffered # {}
    /\ last.pre.buffered \subseteq pipelines[last.pre.tracerProvider].exported
    /\ pipelines[last.pre.tracerProvider].shutdown

====
